---- MODULE Spec2Model ----
(***************************************************************************)
(* Model of src/api/index.js: the serverless handler that routes requests  *)
(* to the health, embeddings and ask handlers, with the lazily initialised *)
(* OpenAI / Pinecone clients kept in module-level variables.               *)
(*                                                                         *)
(* Node runs one callback at a time, so one action is the code a request   *)
(* executes between two awaits.  A request that is suspended on an await   *)
(* keeps its position in the pc of its record; the answer (success or      *)
(* failure, and for a query the match list) is chosen when the await       *)
(* returns.  JavaScript values are written as strings: Undefined stands    *)
(* for undefined, "" for the empty string, NonString for a truthy value    *)
(* that is not a string.  Paths are sequences of characters so that the    *)
(* prefix stripping of the router is computed, not assumed.  Logging and   *)
(* the 100-character preview of the 201 body change no state and are left  *)
(* out; a 201 body is modelled by its id.                                  *)
(***************************************************************************)
EXTENDS Integers, Sequences, FiniteSets, Bags, TLC

VARIABLES
    openai,               \* module variable openai: is the client constructed
    pineconeIndex,        \* module variable pineconeIndex: Unset or a handle
    pineconeInitialized,  \* module variable pineconeInitialized
    reqs,                 \* the bag of the requests in flight
    answered,             \* the request answered last, with its response; its seq
                          \* is the number of requests received when it was answered
    indexExists,          \* store side: the index is in the store's listing
    records,              \* store side: id -> metadata.text
    now,                  \* Date.now()
    frontendUrl,          \* process.env.FRONTEND_URL
    started,              \* number of requests received so far
    openaiBuilt,          \* history: number of `new OpenAI` executed
    pineconeBuilt,        \* history: number of `new Pinecone` executed
    indexBuilt,           \* history: number of `pinecone.Index(indexName)` executed
    createdByInit,        \* history: a createIndex of this process created the index
    waitFinished,         \* history: the 30 s wait after that creation has ended
    genIds                \* history: bag of the generated ids returned with 201

vars == <<openai, pineconeIndex, pineconeInitialized, reqs, answered, indexExists, records,
          now, frontendUrl, started, openaiBuilt, pineconeBuilt, indexBuilt, createdByInit,
          waitFinished, genIds>>

----------------------------------------------------------------------------
\* Bounds of the model.
NumSlots == 2       \* requests that can be in flight at the same time
MaxRequests == 2    \* requests received in one run of the process
MaxClock == 2       \* values Date.now() takes
MaxMatches == 2     \* longest match list a query returns in the model

\* Constants of the program.
TopK == 5
ScoreThreshold == 5   \* 0.5, scores are counted in tenths

Undefined == "undefined"
NonString == "<number>"
Unset == "unset"
IndexHandle == "index"

\* Request paths (url.pathname), as sequences of characters.
Api == <<"/", "a", "p", "i">>
PRoot == <<"/">>
PHealth == <<"/", "h", "e", "a", "l", "t", "h">>
PEmbeddings == <<"/", "e", "m", "b", "e", "d", "d", "i", "n", "g", "s">>
PAsk == <<"/", "a", "s", "k">>
POther == <<"/", "x">>

Methods == {"GET", "POST", "PUT", "OPTIONS"}
Paths == {PRoot, Api, PHealth, Api \o PHealth, Api \o PEmbeddings, Api \o PAsk,
          Api \o POther, Api \o Api \o PAsk, Api \o <<"a", "s", "k">>}
LocalOrigin == "http://localhost:5173"
RemoteOrigin == "https://other.example"
Origins == {Undefined, LocalOrigin, RemoteOrigin}
FrontendUrls == {Undefined, "https://app.example"}

\* A request as the runtime hands it to handler(): method, url.pathname, the Origin
\* header and the fields of the parsed JSON body.
Input(method, path, origin, text, chunkId, question, documentID) ==
    [method |-> method, path |-> path, origin |-> origin, text |-> text,
     chunkId |-> chunkId, question |-> question, documentID |-> documentID]
\* Every method on every path from every origin, with an empty body.
RouterInputs ==
    {Input(m, p, o, Undefined, Undefined, Undefined, Undefined) :
        m \in Methods, p \in Paths, o \in Origins}
\* POST /api/embeddings: text missing, empty or present, with and without chunkId.
EmbeddingsInputs ==
    {Input("POST", Api \o PEmbeddings, Undefined, t[1], t[2], Undefined, Undefined) :
        t \in {<<Undefined, Undefined>>, <<"", Undefined>>,
               <<"t3", Undefined>>, <<"t3", "d1">>}}
\* POST /api/ask: question missing, empty, not a string or present; documentID
\* missing or present.
AskInputs ==
    {Input("POST", Api \o PAsk, Undefined, Undefined, Undefined, t[1], t[2]) :
        t \in {<<Undefined, "d1">>, <<"", "d1">>, <<NonString, "d1">>,
               <<"q1", Undefined>>, <<"q1", "d1">>, <<"q1", "d2">>}}
RequestInputs == EmbeddingsInputs \cup AskInputs

----------------------------------------------------------------------------
\* JavaScript truthiness and typeof for the values above.
Truthy(v) == v # Undefined /\ v # ""
IsString(v) == v # Undefined /\ v # NonString

\* origin.includes('localhost') || origin.includes('127.0.0.1')
IsLocal(origin) == origin = LocalOrigin

NoResp == [status |-> 0, kind |-> "none", error |-> "", details |-> "",
           id |-> "", question |-> "", answer |-> ""]
Resp(status, kind) == [NoResp EXCEPT !.status = status, !.kind = kind]
ErrorResp(status, msg) == [Resp(status, "error") EXCEPT !.error = msg]

Idle == [pc |-> "idle", method |-> "", path |-> <<>>, origin |-> Undefined,
         text |-> Undefined, chunkId |-> Undefined, question |-> Undefined,
         documentID |-> Undefined, handler |-> "none", handle |-> Unset,
         created |-> FALSE, id |-> "", failed |-> "", seq |-> 0, calls |-> <<>>, prompts |-> <<>>, matches |-> <<>>,
         allowOrigin |-> "", resp |-> NoResp]

Fresh(in) == [Idle EXCEPT !.method = in.method, !.path = in.path, !.origin = in.origin,
                          !.text = in.text, !.chunkId = in.chunkId,
                          !.question = in.question, !.documentID = in.documentID]

\* res.status(..).json(..) / res.status(..).end(): the request is answered.
Respond(q, resp) == [q EXCEPT !.pc = "done", !.resp = resp]
\* A provider call is issued and the request suspends on it.
Call(q, name, pc) == [q EXCEPT !.pc = pc, !.calls = Append(@, name)]

\* setCorsHeaders: the value of Access-Control-Allow-Origin.
CorsOrigin(origin, envUrl) ==
    LET allowedOrigin == IF Truthy(envUrl) THEN envUrl ELSE "*" IN
    IF Truthy(origin) /\ (IsLocal(origin) \/ allowedOrigin = "*") THEN origin
    ELSE IF allowedOrigin # "*" THEN allowedOrigin
    ELSE "*"

\* Variant: the OPTIONS check is missing.
IsPreflightNever(method) == FALSE
\* handler: the OPTIONS short-circuit.
IsPreflight(method) == method = "OPTIONS"

HasPrefix(p, pre) == Len(p) >= Len(pre) /\ SubSeq(p, 1, Len(pre)) = pre

\* Variant: the /api prefix is not stripped.
NormalizePathKeep(pathname) == pathname
\* url.pathname.replace(/^\/api/, '') || '/'
NormalizePath(pathname) ==
    LET stripped == IF HasPrefix(pathname, Api)
                    THEN SubSeq(pathname, Len(Api) + 1, Len(pathname))
                    ELSE pathname
    IN IF stripped = <<>> THEN PRoot ELSE stripped

\* handler: the switch on the path, with the method checks of its cases.
Route(method, path) ==
    CASE path = PRoot \/ path = PHealth -> "health"
      [] path = PEmbeddings -> IF method # "POST" THEN "405" ELSE "embeddings"
      [] path = PAsk -> IF method # "POST" THEN "405" ELSE "ask"
      [] OTHER -> "404"

----------------------------------------------------------------------------
\* Variant: a failure is reported as "no relevant context".
HandlerErrorNotFound(q, msg) ==
    Respond(q, [ErrorResp(404, "No relevant context found")
                   EXCEPT !.question = q.question])
\* The catch blocks of the two handlers: 500 with error.message.
HandlerError(q, msg) ==
    IF q.handler = "embeddings"
    THEN Respond(q, ErrorResp(500, msg))
    ELSE Respond(q, [ErrorResp(500, "Failed to process question")
                        EXCEPT !.details = msg])

\* A provider call of q rejects, or a statement of the handler throws: control
\* passes to the catch block.  q.failed keeps what was thrown.
Throw(q, msg) == HandlerError([q EXCEPT !.failed = msg], msg)

\* handleEmbeddings / handleAsk from the return of initClients to the first await:
\* the destructuring of the body, the validation and the embedding call.
AfterInit(q) ==
    IF q.handler = "embeddings"
    THEN IF ~Truthy(q.text)
         THEN Respond(q, ErrorResp(400, "Text content is required"))
         ELSE Call(q, "embed", "embedding")
    ELSE IF ~Truthy(q.question) \/ ~IsString(q.question)
         THEN Respond(q, ErrorResp(400, "Valid question string is required"))
         ELSE IF ~Truthy(q.documentID)
              THEN Respond(q, ErrorResp(400, "Document ID is required"))
              ELSE Call(q, "embed", "embedding")

\* queryResult.matches.find(match => match.id === documentID): position of the
\* first match with that id, 0 if there is none.
FindExact(matches, documentID) ==
    LET hits == {i \in 1..Len(matches) : matches[i].id = documentID} IN
    IF hits = {} THEN 0 ELSE CHOOSE i \in hits : \A j \in hits : i <= j

\* Variant: the threshold itself is not good enough.
GoodScoreStrict(score) == score > ScoreThreshold
\* bestMatch.score >= 0.5
GoodScore(score) == score >= ScoreThreshold

\* Variant: the best match is preferred to the exact match when it scores well.
SelectContextBestFirst(matches, documentID) ==
    IF Len(matches) > 0
    THEN IF matches[1].score >= ScoreThreshold
         THEN [variant |-> "lenient", context |-> matches[1].text]
         ELSE LET e == FindExact(matches, documentID) IN
              IF e # 0
              THEN [variant |-> "strict", context |-> matches[e].text]
              ELSE [variant |-> "none", context |-> ""]
    ELSE [variant |-> "none", context |-> ""]

\* handleAsk, from the query result to the completion call or the 404: which
\* prompt is sent, with which context.
SelectContext(matches, documentID) ==
    IF Len(matches) > 0
    THEN LET e == FindExact(matches, documentID) IN
         IF e # 0
         THEN [variant |-> "strict", context |-> matches[e].text]
         ELSE IF GoodScore(matches[1].score)
              THEN [variant |-> "lenient", context |-> matches[1].text]
              ELSE [variant |-> "none", context |-> ""]
    ELSE [variant |-> "none", context |-> ""]

\* chunkId || Date.now().toString()
ChunkIdOrNow(chunkId, t) == IF Truthy(chunkId) THEN chunkId ELSE ToString(t)

\* What a top-k cosine query can return: at most TopK matches with distinct ids of
\* stored records, ordered by descending score, each with the record's text.
Scores == {ScoreThreshold - 1, ScoreThreshold}
RECURSIVE Distinct(_)
Distinct(s) ==
    Len(s) <= 1 \/ ((\A i \in 2..Len(s) : s[i].id # s[1].id) /\ Distinct(Tail(s)))
MatchesOf(recs) ==
    {[id |-> i, score |-> sc, text |-> recs[i]] : i \in DOMAIN recs, sc \in Scores}
MatchLists(recs) ==
    LET M == MatchesOf(recs)
        top == IF MaxMatches < TopK THEN MaxMatches ELSE TopK IN
    UNION {{s \in [1..n -> M] :
               /\ Distinct(s)
               /\ \A i \in 1..(n - 1) : s[i].score >= s[i + 1].score} : n \in 0..top}

EmptyStore == [i \in {} |-> ""]
SeededStore == ("d1" :> "t1") @@ ("d2" :> "t2")

----------------------------------------------------------------------------
Init ==
    /\ openai = FALSE
    /\ pineconeIndex = Unset
    /\ pineconeInitialized = FALSE
    /\ reqs = EmptyBag
    /\ answered = Idle
    /\ indexExists \in BOOLEAN
    /\ records = IF indexExists THEN SeededStore ELSE EmptyStore
    /\ now = 1
    /\ frontendUrl = Undefined
    /\ started = 0
    /\ openaiBuilt = 0
    /\ pineconeBuilt = 0
    /\ indexBuilt = 0
    /\ createdByInit = FALSE
    /\ waitFinished = FALSE
    /\ genIds = EmptyBag

Store == <<indexExists, records>>
Clients == <<openai, pineconeIndex, pineconeInitialized>>
Builds == <<openaiBuilt, pineconeBuilt, indexBuilt>>
Env == <<now, frontendUrl, started>>
Ghosts == <<createdByInit, waitFinished, genIds>>

\* The request q has run up to its next await (it stays in flight as q2) or to its
\* response (it is answered and leaves the process).
Land(others, q2, n) ==
    IF q2.pc = "done"
    THEN reqs' = others /\ answered' = [q2 EXCEPT !.seq = n]
    ELSE reqs' = others (+) SetToBag({q2}) /\ answered' = answered
Settle(q, q2) == Land(reqs (-) SetToBag({q}), q2, started)
\* A new request has run up to its first await or to its response.
Admit(q2) == Land(reqs, q2, started + 1)

\* The requests in flight.
InFlight == BagToSet(reqs)

\* handler(req, res) up to its first await: CORS headers, the OPTIONS short-circuit,
\* routing, and for the two POST handlers the synchronous part of initClients.
Receive(Inputs) ==
    /\ BagCardinality(reqs) < NumSlots
    /\ started < MaxRequests
    /\ started' = started + 1
    /\ \E in \in Inputs :
         LET q0 == [Fresh(in) EXCEPT !.allowOrigin = CorsOrigin(in.origin, frontendUrl)]
             route == Route(in.method, NormalizePath(in.path)) IN
         IF IsPreflight(in.method) \/ route \notin {"embeddings", "ask"}
         THEN /\ Admit(IF IsPreflight(in.method)
                       THEN Respond(q0, Resp(200, "empty"))
                       ELSE IF route = "health"
                       THEN Respond(q0, [Resp(200, "health") EXCEPT !.answer = "ok"])
                       ELSE IF route = "405"
                       THEN Respond(q0, ErrorResp(405, "Method not allowed"))
                       ELSE Respond(q0, ErrorResp(404, "Not found")))
              /\ UNCHANGED <<Clients, Builds>>
         ELSE LET q1 == [q0 EXCEPT !.handler = route] IN
              /\ openai' = TRUE
              /\ openaiBuilt' = IF openai THEN openaiBuilt ELSE openaiBuilt + 1
              /\ IF ~pineconeInitialized
                 THEN /\ pineconeBuilt' = pineconeBuilt + 1
                      /\ Admit(Call(q1, "listIndexes", "listing"))
                 ELSE /\ pineconeBuilt' = pineconeBuilt
                      /\ Admit(AfterInit([q1 EXCEPT !.handle = pineconeIndex]))
              /\ UNCHANGED <<pineconeIndex, pineconeInitialized, indexBuilt>>
    /\ UNCHANGED <<Store, now, frontendUrl, Ghosts>>

\* Variant: the flag is set before the listing is awaited, so a failed listing
\* leaves it set.
ListFailsMarksReady(q) ==
    /\ q.pc = "listing"
    /\ pineconeInitialized' = TRUE
    /\ Settle(q, Throw(q, "listIndexes failed"))
    /\ UNCHANGED <<openai, pineconeIndex, Builds, Store, Env, Ghosts>>

\* initClients: pinecone.listIndexes() rejects; the catch rethrows.
ListFails(q) ==
    /\ q.pc = "listing"
    /\ Settle(q, Throw(q, "listIndexes failed"))
    /\ UNCHANGED <<Clients, Builds, Store, Env, Ghosts>>

\* initClients, lines 41-43 and the return: the handle is stored, the flag is set.
\* The handler continues with its validation.
FinishInit(q) ==
    /\ pineconeIndex' = IndexHandle
    /\ pineconeInitialized' = TRUE
    /\ indexBuilt' = indexBuilt + 1
    /\ Settle(q, AfterInit([q EXCEPT !.handle = IndexHandle]))
    /\ UNCHANGED <<openai, openaiBuilt, pineconeBuilt>>

\* initClients: the listing names the index, so creation and wait are skipped.
ListFindsIndex(q) ==
    /\ q.pc = "listing"
    /\ indexExists
    /\ FinishInit(q)
    /\ UNCHANGED <<Store, Env, Ghosts>>

\* initClients: the listing does not name the index; createIndex is called.
ListMissesIndex(q) ==
    /\ q.pc = "listing"
    /\ ~indexExists
    /\ Settle(q, Call(q, "createIndex", "creating"))
    /\ UNCHANGED <<Clients, Builds, Store, Env, Ghosts>>

\* initClients: createIndex rejects (also the store's answer to a duplicate name).
CreateFails(q) ==
    /\ q.pc = "creating"
    /\ Settle(q, Throw(q, "createIndex failed"))
    /\ UNCHANGED <<Clients, Builds, Store, Env, Ghosts>>

\* initClients: createIndex resolves; the 30 s timer is started.
CreateSucceeds(q) ==
    /\ q.pc = "creating"
    /\ indexExists' = TRUE
    /\ createdByInit' = (createdByInit \/ ~indexExists)
    /\ Settle(q, [q EXCEPT !.pc = "waiting", !.created = ~indexExists])
    /\ UNCHANGED <<Clients, Builds, records, Env, waitFinished, genIds>>

\* initClients: the timer fires.
WaitEnds(q) ==
    /\ q.pc = "waiting"
    /\ waitFinished' = (waitFinished \/ q.created)
    /\ FinishInit(q)
    /\ UNCHANGED <<Store, Env, createdByInit, genIds>>

\* openai.embeddings.create rejects, in either handler.
EmbedFails(q) ==
    /\ q.pc = "embedding"
    /\ Settle(q, Throw(q, "embeddings.create failed"))
    /\ UNCHANGED <<Clients, Builds, Store, Env, Ghosts>>

\* handleEmbeddings: the embedding arrives; the id is chosen and the upsert issued.
\* Calling a method of an undefined handle throws inside the try.
EmbeddingsEmbedded(q) ==
    /\ q.pc = "embedding"
    /\ q.handler = "embeddings"
    /\ LET q1 == [q EXCEPT !.id = ChunkIdOrNow(q.chunkId, now)] IN
       Settle(q, IF q1.handle = Unset
                  THEN Throw(q1, "Cannot read properties of undefined")
                  ELSE Call(q1, "upsert", "upserting"))
    /\ UNCHANGED <<Clients, Builds, Store, Env, Ghosts>>

UpsertFails(q) ==
    /\ q.pc = "upserting"
    /\ Settle(q, Throw(q, "upsert failed"))
    /\ UNCHANGED <<Clients, Builds, Store, Env, Ghosts>>

\* handleEmbeddings: the store has written the record; 201 with the id.
UpsertSucceeds(q) ==
    /\ q.pc = "upserting"
    /\ records' = (q.id :> q.text) @@ records
    /\ genIds' = IF Truthy(q.chunkId) THEN genIds
                 ELSE genIds (+) SetToBag({q.id})
    /\ Settle(q, Respond(q, [Resp(201, "created") EXCEPT !.id = q.id]))
    /\ UNCHANGED <<Clients, Builds, indexExists, Env, createdByInit, waitFinished>>

\* handleAsk: the question's embedding arrives; the similarity query is issued.
AskEmbedded(q) ==
    /\ q.pc = "embedding"
    /\ q.handler = "ask"
    /\ Settle(q, IF q.handle = Unset
                  THEN Throw(q, "Cannot read properties of undefined")
                  ELSE Call(q, "query", "querying"))
    /\ UNCHANGED <<Clients, Builds, Store, Env, Ghosts>>

QueryFails(q) ==
    /\ q.pc = "querying"
    /\ Settle(q, Throw(q, "query failed"))
    /\ UNCHANGED <<Clients, Builds, Store, Env, Ghosts>>

\* handleAsk: the matches arrive; either a completion is requested with the chosen
\* context or the request is answered 404.
QueryReturns(q) ==
    /\ q.pc = "querying"
    /\ \E m \in MatchLists(records) :
         LET q1 == [q EXCEPT !.matches = m]
             sel == SelectContext(m, q1.documentID) IN
         Settle(q, IF sel.variant = "none"
                    THEN Respond(q1, [ErrorResp(404, "No relevant context found")
                                        EXCEPT !.question = q1.question])
                    ELSE Call([q1 EXCEPT !.prompts = Append(@, sel)],
                              "completion", "completing"))
    /\ UNCHANGED <<Clients, Builds, Store, Env, Ghosts>>

CompletionFails(q) ==
    /\ q.pc = "completing"
    /\ Settle(q, Throw(q, "chat.completions.create failed"))
    /\ UNCHANGED <<Clients, Builds, Store, Env, Ghosts>>

\* handleAsk: res.json({question, answer}), status 200 by default.
CompletionSucceeds(q) ==
    /\ q.pc = "completing"
    /\ Settle(q, Respond(q, [Resp(200, "answer") EXCEPT !.question = q.question,
                                                         !.answer = "answer"]))
    /\ UNCHANGED <<Clients, Builds, Store, Env, Ghosts>>

\* The clock read by Date.now() advances.
Tick ==
    /\ now < MaxClock
    /\ now' = now + 1
    /\ UNCHANGED <<Clients, Builds, Store, reqs, answered, frontendUrl, started, Ghosts>>

Next ==
    \/ Receive(RequestInputs)
    \/ \E q \in InFlight : ListFails(q)
    \/ \E q \in InFlight : ListFindsIndex(q)
    \/ \E q \in InFlight : ListMissesIndex(q)
    \/ \E q \in InFlight : CreateFails(q)
    \/ \E q \in InFlight : CreateSucceeds(q)
    \/ \E q \in InFlight : WaitEnds(q)
    \/ \E q \in InFlight : EmbedFails(q)
    \/ \E q \in InFlight : EmbeddingsEmbedded(q)
    \/ \E q \in InFlight : UpsertFails(q)
    \/ \E q \in InFlight : UpsertSucceeds(q)
    \/ \E q \in InFlight : AskEmbedded(q)
    \/ \E q \in InFlight : QueryFails(q)
    \/ \E q \in InFlight : QueryReturns(q)
    \/ \E q \in InFlight : CompletionFails(q)
    \/ \E q \in InFlight : CompletionSucceeds(q)
    \/ Tick

Spec == Init /\ [][Next]_vars

\* The router and the CORS headers under every method, path, origin and
\* FRONTEND_URL; the bodies are empty, so no request gets past validation.
RouterInit ==
    /\ openai = FALSE
    /\ pineconeIndex = Unset
    /\ pineconeInitialized = FALSE
    /\ reqs = EmptyBag
    /\ answered = Idle
    /\ indexExists \in BOOLEAN
    /\ records = IF indexExists THEN SeededStore ELSE EmptyStore
    /\ now = 1
    /\ frontendUrl \in FrontendUrls
    /\ started = 0
    /\ openaiBuilt = 0
    /\ pineconeBuilt = 0
    /\ indexBuilt = 0
    /\ createdByInit = FALSE
    /\ waitFinished = FALSE
    /\ genIds = EmptyBag

RouterNext ==
    \/ Receive(RouterInputs)
    \/ \E q \in InFlight : ListFails(q)
    \/ \E q \in InFlight : ListFindsIndex(q)
    \/ \E q \in InFlight : ListMissesIndex(q)
    \/ \E q \in InFlight : CreateFails(q)
    \/ \E q \in InFlight : CreateSucceeds(q)
    \/ \E q \in InFlight : WaitEnds(q)

RouterSpec == RouterInit /\ [][RouterNext]_vars

\* The question-answering path alone: POST /api/ask requests, concurrently, from
\* the first request of the process on.
AskNext ==
    \/ Receive(AskInputs)
    \/ \E q \in InFlight : ListFails(q)
    \/ \E q \in InFlight : ListFindsIndex(q)
    \/ \E q \in InFlight : ListMissesIndex(q)
    \/ \E q \in InFlight : CreateFails(q)
    \/ \E q \in InFlight : CreateSucceeds(q)
    \/ \E q \in InFlight : WaitEnds(q)
    \/ \E q \in InFlight : EmbedFails(q)
    \/ \E q \in InFlight : AskEmbedded(q)
    \/ \E q \in InFlight : QueryFails(q)
    \/ \E q \in InFlight : QueryReturns(q)
    \/ \E q \in InFlight : CompletionFails(q)
    \/ \E q \in InFlight : CompletionSucceeds(q)

AskSpec == Init /\ [][AskNext]_vars

----------------------------------------------------------------------------
\* What the properties below speak about.
AskAnswered == answered.pc = "done" /\ answered.handler = "ask"
\* The positions of q's match list whose id is the requested documentID.
ExactHits(q) == {i \in 1..Len(q.matches) : q.matches[i].id = q.documentID}
StrictPromptOf(q) ==
    \E i \in ExactHits(q) : q.prompts = <<[variant |-> "strict",
                                           context |-> q.matches[i].text]>>
LenientPromptOf(q) ==
    q.prompts = <<[variant |-> "lenient", context |-> q.matches[1].text]>>
Answer200(q) ==
    /\ q.resp.status = 200 /\ q.resp.kind = "answer"
    /\ q.resp.question = q.question /\ q.resp.answer = "answer"
CompletionFailed500(q) ==
    /\ q.failed = "chat.completions.create failed"
    /\ q.resp.status = 500 /\ q.resp.details = q.failed
NotFound404(q) ==
    /\ q.resp.status = 404 /\ q.resp.error = "No relevant context found"
    /\ q.resp.question = q.question /\ q.resp.answer = "" /\ q.prompts = <<>>
\* The input of q fails the validation of its handler.
InvalidInput(q) ==
    \/ q.handler = "embeddings" /\ q.text \in {Undefined, ""}
    \/ q.handler = "ask" /\ (q.question \in {Undefined, "", NonString}
                               \/ q.documentID = Undefined)

\* C1: a request whose input fails validation and that is answered 400 has made
\* no provider call at all (no listing, creation, embedding, upsert, query,
\* completion), also when it is the first request of the process.
C1_ValidationMakesNoProviderCall ==
    (answered.pc = "done" /\ InvalidInput(answered) /\ answered.resp.status = 400) =>
        answered.calls = <<>>

\* C2 as stated: an ask whose matches contain the requested id sends the strict
\* prompt with that match's text, once, and is answered 200 {question, answer}.
C2_ExactMatchAlways200 ==
    (AskAnswered /\ ExactHits(answered) # {}) =>
        (StrictPromptOf(answered) /\ Answer200(answered))

\* C2 amended: an ask whose matches contain the requested id sends exactly one
\* completion request, the strict prompt with that match's text, whatever the
\* match's score or position; the answer is 200 {question, answer} when the
\* completion succeeds and 500 with its message when it fails.
C2_ExactMatchStrictPrompt ==
    /\ \A q \in InFlight : ExactHits(q) # {} => (q.pc = "completing" /\ StrictPromptOf(q))
    /\ (AskAnswered /\ ExactHits(answered) # {}) =>
          /\ StrictPromptOf(answered)
          /\ Answer200(answered) \/ CompletionFailed500(answered)

\* C2 witness: answered 200 from an exact match that is second in the list and
\* scores below the threshold, behind a match with another text.
C2_Witness ==
    /\ AskAnswered /\ Answer200(answered)
    /\ Len(answered.matches) = 2
    /\ ExactHits(answered) = {2}
    /\ answered.matches[2].score < ScoreThreshold
    /\ answered.matches[1].text # answered.matches[2].text

C4_NotFoundIsNotFailure ==
    AskAnswered =>
        /\ answered.resp.status = 404 =>
              /\ answered.failed = ""
              /\ answered.calls[Len(answered.calls)] = "query"
              /\ answered.calls[Len(answered.calls) - 1] = "embed"
              /\ answered.handle = IndexHandle
              /\ \/ answered.matches = <<>>
                 \/ /\ ExactHits(answered) = {}
                    /\ answered.matches[1].score < ScoreThreshold
        /\ answered.failed # "" =>
              /\ answered.resp.status = 500
              /\ answered.resp.details = answered.failed
        /\ answered.resp.status \in {200, 404} => answered.failed = ""

\* C4 witness: a query that failed, answered 500 with the query's message.
C4_Witness ==
    /\ AskAnswered
    /\ answered.failed = "query failed"
    /\ answered.resp.status = 500

InitFailures == {"listIndexes failed", "createIndex failed"}
\* A step in which an initClients call fails (its request is answered).
InitFailsStep ==
    /\ answered'.failed \in InitFailures
    /\ \E q \in InFlight : /\ q.pc \in {"listing", "creating"}
                           /\ reqs' = reqs (-) SetToBag({q})
                           /\ answered' = [Throw(q, answered'.failed)
                                               EXCEPT !.seq = started]
\* A step in which a request for one of the two POST handlers is received.
HandlerEntryStep ==
    /\ started' = started + 1
    /\ \/ BagCardinality(reqs') = BagCardinality(reqs) + 1
       \/ answered'.seq = started' /\ answered'.handler # "none"

\* C5: a failing listing or creation leaves pineconeInitialized and
\* pineconeIndex as they were; while the flag is false every request entering
\* initClients lists the indexes again; the flag is never set without the
\* handle, and no request gets past initClients with an unset handle.
C5_FailedInitIsRetried ==
    /\ [](pineconeInitialized => pineconeIndex # Unset)
    /\ [](\A q \in InFlight :
             q.pc \in {"embedding", "upserting", "querying", "completing"} =>
                 q.handle # Unset)
    /\ [][/\ InitFailsStep =>
               UNCHANGED <<pineconeInitialized, pineconeIndex>>
          /\ (HandlerEntryStep /\ ~pineconeInitialized) =>
               \E q \in BagToSet(reqs') :
                   /\ q.pc = "listing" /\ q.calls = <<"listIndexes">>
                   /\ CopiesIn(q, reqs') = CopiesIn(q, reqs) + 1]_vars

\* C5 witness: the first request failed in createIndex and the process is left
\* uninitialized.
C5_Witness ==
    /\ answered.failed = "createIndex failed"
    /\ started = 1
    /\ ~pineconeInitialized /\ pineconeIndex = Unset

\* C6: the OpenAI client and the Pinecone index handle are each constructed at
\* most once in the process.
C6_HandlesBuiltAtMostOnce == openaiBuilt <= 1 /\ indexBuilt <= 1

\* C7: once initClients has created the index, no upsert or query is in flight
\* until the wait that follows the creation has ended.
C7_NoUseBeforeWaitEnds ==
    (createdByInit /\ ~waitFinished) =>
        \A q \in InFlight : q.pc \notin {"upserting", "querying"}

\* C8: the generated ids returned by successful POST /embeddings requests
\* without chunkId are pairwise different.
C8_GeneratedIdsUnique == \A i \in BagToSet(genIds) : CopiesIn(i, genIds) = 1

HealthPaths == {PRoot, Api, PHealth, Api \o PHealth}
HandlerPaths == {Api \o PEmbeddings, Api \o PAsk}
Health200(q) == q.resp.status = 200 /\ q.resp.kind = "health" /\ q.handler = "none"
NotFoundRoute(q) ==
    q.resp.status = 404 /\ q.resp.error = "Not found" /\ q.handler = "none"
\* The rows of the interface table about /embeddings, /ask and unknown paths.
HandlerRows(q) ==
    /\ (q.path \in HandlerPaths /\ q.method = "POST") =>
          q.handler = (IF q.path = Api \o PAsk THEN "ask" ELSE "embeddings")
    /\ (q.path \in HandlerPaths /\ q.method # "POST") =>
          /\ q.resp.status = 405 /\ q.resp.error = "Method not allowed"
          /\ q.handler = "none" /\ q.calls = <<>>
    /\ q.path \notin (HandlerPaths \cup HealthPaths) => NotFoundRoute(q)

\* C9 as stated: GET on / and /health is answered 200 health, any other method
\* there 404; POST /embeddings and /ask reach their handlers, other methods get
\* 405 without handler or provider call; everything else 404 (OPTIONS aside).
C9_RouterTableAsStated ==
    (answered.pc = "done" /\ answered.method # "OPTIONS") =>
        /\ HandlerRows(answered)
        /\ answered.path \in HealthPaths =>
              IF answered.method = "GET" THEN Health200(answered)
              ELSE NotFoundRoute(answered)

\* C9 amended: as stated, except that / and /health are answered 200 health for
\* every method other than OPTIONS, not only for GET.
C9_RouterTable ==
    /\ \A q \in InFlight : q.method = "POST" /\ q.path \in HandlerPaths /\ HandlerRows(q)
    /\ (answered.pc = "done" /\ answered.method # "OPTIONS") =>
          /\ HandlerRows(answered)
          /\ answered.path \in HealthPaths => Health200(answered)

\* C9 witness: PUT /api/health answered 200 health.
C9_Witness ==
    /\ answered.pc = "done"
    /\ answered.method = "PUT" /\ answered.path = Api \o PHealth
    /\ Health200(answered)

\* A step in which a request is received and answered before any await.
AnsweredAtOnceStep == started' = started + 1 /\ answered'.seq = started'

\* C10: an OPTIONS request, on any path and in any state of the process, is
\* answered 200 with an empty body and the CORS headers; no handler runs, no
\* provider call is made, and openai, pineconeIndex and pineconeInitialized
\* (like the requests in flight and the store) are left as they were.
C10_PreflightShortCircuit ==
    /\ [](\A q \in InFlight : q.method # "OPTIONS")
    /\ [][(AnsweredAtOnceStep /\ answered'.method = "OPTIONS") =>
            /\ answered'.resp = Resp(200, "empty")
            /\ answered'.handler = "none" /\ answered'.calls = <<>>
            /\ answered'.allowOrigin \in {answered'.origin, frontendUrl, "*"}
            /\ UNCHANGED <<Clients, Builds, reqs, Store>>]_vars

\* C10 witness: OPTIONS /api/ask answered 200 while another request is inside
\* initClients and the process is not initialized.
C10_Witness ==
    /\ answered.pc = "done" /\ answered.method = "OPTIONS"
    /\ answered.path = Api \o PAsk
    /\ answered.resp.status = 200
    /\ ~pineconeInitialized
    /\ \E q \in InFlight : q.pc = "creating"
====
